---- MODULE Spec2Model ----
(***************************************************************************)
(* A model of the pcf tokenizer (src/src/lex.rs, `lex`) as a state machine *)
(* over a character cursor.  One action is one arm of the outer match, or  *)
(* one iteration (or the exit) of an inner scanning loop.                  *)
(*                                                                         *)
(* Characters are one-element strings; the two non-ASCII characters used   *)
(* are written by their code points.  `src` is Source.content as a         *)
(* sequence of characters, `chars` the number of characters the Peekable   *)
(* cursor has handed out so far.  `span`, `lexemes`, `content` and `dot`   *)
(* are the locals of lex, `pc` the loop it is in, `result` what it         *)
(* returned.  `tokAt` and `hist` are history variables: the number of      *)
(* characters consumed before the current token, and the first and last    *)
(* character index of every lexeme pushed.  `out` is the text a formatter   *)
(* (a Display implementation) has written, `offset` what extract_offset    *)
(* returned.                                                               *)
(***************************************************************************)
EXTENDS Integers, Sequences, FiniteSets, TLC

VARIABLES src, chars, span, lexemes, pc, content, dot, result, tokAt, hist, out,
          offset

vars == <<src, chars, span, lexemes, pc, content, dot, result, tokAt, hist, out, offset>>

(***************************************************************************)
(* Bounds of the model.                                                    *)
(***************************************************************************)
MaxLen == 4
MaxNumLen == 3
MaxUniLen == 3
MaxLinesLen == 4
MaxWordsLen == 3
MaxSymLen == 3
MaxUtilLen == 3
MaxCoord == 2
MaxLiveLen == 3
MaxPrecLen == 3

(***************************************************************************)
(* Characters and the std classification functions on them.                *)
(***************************************************************************)
QUOTE == "\""
BACKSLASH == "\\"
NEWLINE == "\n"
E_ACUTE == "U+00E9"
ARABIC_THREE == "U+0663"

AsciiDigits == {"0", "1", "2", "3", "4", "5", "6", "7", "8", "9"}

AsciiLetters == {"a", "b", "e", "f", "l", "r", "s", "t", "u", "x", "T"}

\* char::is_numeric: Unicode general categories Nd, Nl, No.
is_numeric(chr) == chr \in AsciiDigits \cup {ARABIC_THREE}

\* char::is_alphanumeric: Unicode Alphabetic, or is_numeric.
is_alphanumeric(chr) == chr \in AsciiLetters \cup {E_ACUTE} \/ is_numeric(chr)

\* char::is_whitespace: Unicode White_Space.
is_whitespace(chr) == chr \in {" ", "\t", NEWLINE}

\* char::to_digit(10), as the std number parsers use it: ASCII digits only.
DigitVal(chr) ==
    CASE chr = "0" -> 0 [] chr = "1" -> 1 [] chr = "2" -> 2 [] chr = "3" -> 3
      [] chr = "4" -> 4 [] chr = "5" -> 5 [] chr = "6" -> 6 [] chr = "7" -> 7
      [] chr = "8" -> 8 [] chr = "9" -> 9

is_identifier(chr) == is_alphanumeric(chr) \/ chr = "_"

is_numeric_or_symbol(chr) ==
    is_numeric(chr) \/ chr = "-" \/ chr = "+" \/ chr = "."

(***************************************************************************)
(* Location and Span.                                                      *)
(***************************************************************************)
Location(line, col) == [line |-> line, col |-> col]

DefaultLocation == Location(1, 1)

\* Mutant: a new line keeps the column.
new_line_keeps_col(loc) == [loc EXCEPT !.line = loc.line + 1]

new_line(loc) == [line |-> loc.line + 1, col |-> 1]

new_col(loc) == [loc EXCEPT !.col = loc.col + 1]

Span(begin, end) == [begin |-> begin, end |-> end]

DefaultSpan == Span(DefaultLocation, DefaultLocation)

\* Mutant: the head of the outer loop forgets `span.begin = span.end`.
StartTokenKeepsBegin(sp) == Span(sp.begin, new_col(sp.end))

\* span.begin = span.end; span.end.new_col();  (the head of the outer loop)
StartToken(sp) == Span(sp.end, new_col(sp.end))

(***************************************************************************)
(* Lexemes, errors and the result of lex.                                  *)
(***************************************************************************)
Lexeme(kind, sp) == [kind |-> kind, span |-> sp]

Kind(tag, val) == [tag |-> tag, val |-> val]

Error(kind, sp) == [tag |-> "Err", kind |-> kind, span |-> sp, lexemes |-> <<>>]

Ok(stream) == [tag |-> "Ok", kind |-> "", span |-> DefaultSpan, lexemes |-> stream]

Running == [tag |-> "", kind |-> "", span |-> DefaultSpan, lexemes |-> <<>>]

\* Mutant: the kinds of the two square brackets are exchanged.
SymbolKindBracketsSwapped(tok) ==
    CASE tok = "=" -> "Equal"
      [] tok = "," -> "Comma"
      [] tok = "[" -> "RBrack"
      [] tok = "]" -> "LBrack"
      [] tok = "{" -> "LBrace"
      [] tok = "}" -> "RBrace"

SymbolKind(tok) ==
    CASE tok = "=" -> "Equal"
      [] tok = "," -> "Comma"
      [] tok = "[" -> "LBrack"
      [] tok = "]" -> "RBrack"
      [] tok = "{" -> "LBrace"
      [] tok = "}" -> "RBrace"

\* Mutant: the identifier arm is tried before the number arm.
DispatchIdentFirst(tok) ==
    IF tok \in {"=", ",", "[", "]", "{", "}"} THEN "symbol"
    ELSE IF tok = QUOTE THEN "string"
    ELSE IF is_identifier(tok) THEN "ident"
    ELSE IF is_numeric_or_symbol(tok) THEN "number"
    ELSE IF tok = "#" THEN "comment"
    ELSE IF tok = NEWLINE THEN "newline"
    ELSE IF is_whitespace(tok) THEN "whitespace"
    ELSE "unrecognized"

\* The arm of the outer match that takes `tok`: arms are tried in source order.
Dispatch(tok) ==
    IF tok \in {"=", ",", "[", "]", "{", "}"} THEN "symbol"
    ELSE IF tok = QUOTE THEN "string"
    ELSE IF is_numeric_or_symbol(tok) THEN "number"
    ELSE IF is_identifier(tok) THEN "ident"
    ELSE IF tok = "#" THEN "comment"
    ELSE IF tok = NEWLINE THEN "newline"
    ELSE IF is_whitespace(tok) THEN "whitespace"
    ELSE "unrecognized"

(***************************************************************************)
(* str::parse::<i64>.  TLC's integers are 32 bits wide, so the 64-bit      *)
(* accumulator is kept as three limbs <<hi, mid, lo>> in base 10^6; the    *)
(* checked multiply-and-add of the std parser fails exactly when the       *)
(* accumulated magnitude leaves the range of the sign being parsed.        *)
(***************************************************************************)
LimbBase == 1000 * 1000

I64MaxLimbs == <<9223372, 36854, 775807>>

I64MinLimbs == <<9223372, 36854, 775808>>

ZeroLimbs == <<0, 0, 0>>

LimbsLeq(a, b) ==
    \/ a[1] < b[1]
    \/ a[1] = b[1] /\ a[2] < b[2]
    \/ a[1] = b[1] /\ a[2] = b[2] /\ a[3] <= b[3]

\* acc * 10 + d on the limbs; hi is left unreduced and compared to the limit.
MulAdd(acc, d) ==
    LET lo == acc[3] * 10 + d
        mid == acc[2] * 10 + (lo \div LimbBase)
        hi == acc[1] * 10 + (mid \div LimbBase)
    IN  <<hi, mid % LimbBase, lo % LimbBase>>

\* checked_mul(10) then checked_add / checked_sub of one digit.
CheckedStep(acc, d, limit) ==
    LET nxt == MulAdd(acc, d)
    IN  [ok |-> LimbsLeq(nxt, limit), acc |-> nxt]

RECURSIVE Accumulate(_, _, _)
Accumulate(digits, acc, limit) ==
    IF digits = <<>> THEN [ok |-> TRUE, acc |-> acc]
    ELSE IF Head(digits) \notin AsciiDigits THEN [ok |-> FALSE, acc |-> acc]
    ELSE LET st == CheckedStep(acc, DigitVal(Head(digits)), limit)
         IN  IF st.ok THEN Accumulate(Tail(digits), st.acc, limit) ELSE st

\* Mutant: the negative range is taken to end at -(2^63 - 1).
I64LimitSymmetric(positive) == I64MaxLimbs

I64Limit(positive) == IF positive THEN I64MaxLimbs ELSE I64MinLimbs

ParseI64(text) ==
    IF text = <<>> THEN [ok |-> FALSE, neg |-> FALSE, mag |-> ZeroLimbs]
    ELSE IF Head(text) \in {"+", "-"} /\ Len(text) = 1
    THEN [ok |-> FALSE, neg |-> FALSE, mag |-> ZeroLimbs]
    ELSE LET positive == Head(text) # "-"
             digits == IF Head(text) \in {"+", "-"} THEN Tail(text) ELSE text
             r == Accumulate(digits, ZeroLimbs, I64Limit(positive))
         IN  [ok |-> r.ok,
              neg |-> r.ok /\ ~positive /\ r.acc # ZeroLimbs,
              mag |-> IF r.ok THEN r.acc ELSE ZeroLimbs]

(***************************************************************************)
(* str::parse::<f64> on the texts the number arm can build: an optional    *)
(* sign, digits and one '.'.  The parse succeeds when every digit is an    *)
(* ASCII digit and there is at least one.  The value is kept as the exact  *)
(* decimal it denotes (integer part without leading zeros, fraction        *)
(* without trailing zeros); rounding to binary64 is not modelled.          *)
(***************************************************************************)
RECURSIVE StripLeading(_)
StripLeading(ds) ==
    IF ds # <<>> /\ Head(ds) = "0" THEN StripLeading(Tail(ds)) ELSE ds

RECURSIVE StripTrailing(_)
StripTrailing(ds) ==
    IF ds # <<>> /\ ds[Len(ds)] = "0"
    THEN StripTrailing([k \in 1..(Len(ds) - 1) |-> ds[k]]) ELSE ds

DotIndex(text) == CHOOSE i \in 1..Len(text) : text[i] = "."

NoFloat == [ok |-> FALSE, neg |-> FALSE, int |-> <<>>, frac |-> <<>>]

ParseF64(text) ==
    LET signed == text # <<>> /\ Head(text) \in {"+", "-"}
        body == IF signed THEN Tail(text) ELSE text
        dots == {i \in 1..Len(body) : body[i] = "."}
    IN  IF Cardinality(dots) # 1 THEN NoFloat
        ELSE LET i == DotIndex(body)
                 ip == [k \in 1..(i - 1) |-> body[k]]
                 fp == [k \in 1..(Len(body) - i) |-> body[i + k]]
                 good == /\ \A k \in 1..Len(ip) : ip[k] \in AsciiDigits
                         /\ \A k \in 1..Len(fp) : fp[k] \in AsciiDigits
                         /\ Len(ip) + Len(fp) > 0
             IN  IF ~good THEN NoFloat
                 ELSE LET a == StripLeading(ip)
                          b == StripTrailing(fp)
                      IN  [ok |-> TRUE,
                           neg |-> Head(text) = "-" /\ (a # <<>> \/ b # <<>>),
                           int |-> a, frac |-> b]

(***************************************************************************)
(* The cursor: chars.next() and chars.peek().                              *)
(***************************************************************************)
Exhausted == chars = Len(src)

Peek == src[chars + 1]

Push(kind, sp) == Append(lexemes, Lexeme(kind, sp))

\* History: for each pushed lexeme, the indices of its first and last character.
Record(last) == Append(hist, [first |-> tokAt + 1, last |-> last])

(***************************************************************************)
(* lex: the outer loop, `while let Some(tok) = chars.next()`.              *)
(***************************************************************************)
AtToken(arm) ==
    /\ pc = "outer"
    /\ ~Exhausted
    /\ Dispatch(Peek) = arm

\* '=' ',' '[' ']' '{' '}'
Symbol ==
    /\ AtToken("symbol")
    /\ chars' = chars + 1
    /\ tokAt' = chars
    /\ span' = StartToken(span)
    /\ lexemes' = Push(Kind(SymbolKind(Peek), <<>>), span')
    /\ hist' = Append(hist, [first |-> chars + 1, last |-> chars + 1])
    /\ UNCHANGED <<src, pc, content, dot, result, out, offset>>

\* '"': enter the string scanning loop.
StringOpen ==
    /\ AtToken("string")
    /\ chars' = chars + 1
    /\ tokAt' = chars
    /\ span' = StartToken(span)
    /\ content' = <<>>
    /\ pc' = "string"
    /\ UNCHANGED <<src, lexemes, dot, result, hist, out, offset>>

\* One iteration of `for chr in chars.by_ref()` in the string arm.
StringNext ==
    /\ pc = "string"
    /\ ~Exhausted
    /\ chars' = chars + 1
    /\ span' = [span EXCEPT !.end = new_col(span.end)]
    /\ IF Peek = QUOTE
       THEN /\ lexemes' = Push(Kind("String", content), span')
            /\ hist' = Record(chars + 1)
            /\ pc' = "outer"
            /\ content' = content
       ELSE /\ content' = Append(content, Peek)
            /\ UNCHANGED <<lexemes, hist, pc>>
    /\ UNCHANGED <<src, dot, result, tokAt, out, offset>>

\* The string loop ends on None with closed = false.
StringUnterminated ==
    /\ pc = "string"
    /\ Exhausted
    /\ result' = Error("UnterminatedString", span)
    /\ pc' = "done"
    /\ UNCHANGED <<src, chars, span, lexemes, content, dot, tokAt, hist, out, offset>>

\* `_ if is_numeric_or_symbol(tok)`: enter the number scanning loop.
NumberStart ==
    /\ AtToken("number")
    /\ chars' = chars + 1
    /\ tokAt' = chars
    /\ span' = StartToken(span)
    /\ content' = <<Peek>>
    /\ dot' = (Peek = ".")
    /\ pc' = "number"
    /\ UNCHANGED <<src, lexemes, result, hist, out, offset>>

\* What one look at chars.peek() in the number loop leads to.
NumberPeek(chr, seenDot) ==
    IF chr = "." /\ seenDot THEN "error"
    ELSE IF ~is_numeric(chr) /\ chr # "." THEN "break"
    ELSE "consume"

\* An iteration of the number loop that consumes the peeked character.
NumberNext ==
    /\ pc = "number"
    /\ ~Exhausted
    /\ NumberPeek(Peek, dot) = "consume"
    /\ dot' = (dot \/ Peek = ".")
    /\ chars' = chars + 1
    /\ content' = Append(content, Peek)
    /\ span' = [span EXCEPT !.end = new_col(span.end)]
    /\ UNCHANGED <<src, lexemes, pc, result, tokAt, hist, out, offset>>

\* A second '.' is peeked: MalformedNumber, the '.' is not consumed.
NumberSecondDot ==
    /\ pc = "number"
    /\ ~Exhausted
    /\ NumberPeek(Peek, dot) = "error"
    /\ result' = Error("MalformedNumber", span)
    /\ pc' = "done"
    /\ UNCHANGED <<src, chars, span, lexemes, content, dot, tokAt, hist, out, offset>>

\* The kind the buffered number text parses to, or the failure.
NumberKind(text, seenDot) ==
    IF seenDot
    THEN LET f == ParseF64(text)
         IN  [ok |-> f.ok,
              kind |-> Kind("Float", [neg |-> f.neg, int |-> f.int, frac |-> f.frac])]
    ELSE LET i == ParseI64(text)
         IN  [ok |-> i.ok,
              kind |-> Kind("Integer", [neg |-> i.neg, mag |-> i.mag])]

\* The number loop ends (None, or a character that is no digit and no '.').
NumberEnd ==
    /\ pc = "number"
    /\ IF Exhausted THEN TRUE ELSE NumberPeek(Peek, dot) = "break"
    /\ LET n == NumberKind(content, dot)
       IN  IF n.ok
           THEN /\ lexemes' = Push(n.kind, span)
                /\ hist' = Record(chars)
                /\ pc' = "outer"
                /\ result' = result
           ELSE /\ result' = Error("MalformedNumber", span)
                /\ pc' = "done"
                /\ UNCHANGED <<lexemes, hist>>
    /\ UNCHANGED <<src, chars, span, content, dot, tokAt, out, offset>>

\* `_ if is_identifier(tok)`: enter the identifier scanning loop.
IdentStart ==
    /\ AtToken("ident")
    /\ chars' = chars + 1
    /\ tokAt' = chars
    /\ span' = StartToken(span)
    /\ content' = <<Peek>>
    /\ pc' = "ident"
    /\ UNCHANGED <<src, lexemes, dot, result, hist, out, offset>>

\* An iteration of the identifier loop that consumes the peeked character.
IdentNext ==
    /\ pc = "ident"
    /\ ~Exhausted
    /\ is_identifier(Peek)
    /\ chars' = chars + 1
    /\ span' = [span EXCEPT !.end = new_col(span.end)]
    /\ content' = Append(content, Peek)
    /\ UNCHANGED <<src, lexemes, pc, dot, result, tokAt, hist, out, offset>>

\* `match content.as_str()`
IdentKind(text) ==
    IF text = <<"t", "r", "u", "e">> THEN Kind("Bool", TRUE)
    ELSE IF text = <<"f", "a", "l", "s", "e">> THEN Kind("Bool", FALSE)
    ELSE Kind("Ident", text)

\* The identifier loop ends (None, or a character that is no identifier character).
IdentEnd ==
    /\ pc = "ident"
    /\ IF Exhausted THEN TRUE ELSE ~is_identifier(Peek)
    /\ lexemes' = Push(IdentKind(content), span)
    /\ hist' = Record(chars)
    /\ pc' = "outer"
    /\ UNCHANGED <<src, chars, span, content, dot, result, tokAt, out, offset>>

\* '#': enter the comment loop.
CommentStart ==
    /\ AtToken("comment")
    /\ chars' = chars + 1
    /\ tokAt' = chars
    /\ span' = StartToken(span)
    /\ pc' = "comment"
    /\ UNCHANGED <<src, lexemes, content, dot, result, hist, out, offset>>

\* Mutant: the comment loop looks at chars.peek() and never calls next().
CommentNextPeeks ==
    /\ pc = "comment"
    /\ ~Exhausted
    /\ chars' = chars
    /\ IF Peek = NEWLINE
       THEN /\ span' = [span EXCEPT !.end = new_line(span.end)]
            /\ pc' = "outer"
       ELSE /\ span' = [span EXCEPT !.end = new_col(span.end)]
            /\ pc' = pc
    /\ UNCHANGED <<src, lexemes, content, dot, result, tokAt, hist, out, offset>>

\* One iteration of `for chr in chars.by_ref()` in the comment arm.
CommentNext ==
    /\ pc = "comment"
    /\ ~Exhausted
    /\ chars' = chars + 1
    /\ IF Peek = NEWLINE
       THEN /\ span' = [span EXCEPT !.end = new_line(span.end)]
            /\ pc' = "outer"
       ELSE /\ span' = [span EXCEPT !.end = new_col(span.end)]
            /\ pc' = pc
    /\ UNCHANGED <<src, lexemes, content, dot, result, tokAt, hist, out, offset>>

\* The comment loop ends on None; `continue`.
CommentEnd ==
    /\ pc = "comment"
    /\ Exhausted
    /\ pc' = "outer"
    /\ UNCHANGED <<src, chars, span, lexemes, content, dot, result, tokAt, hist, out, offset>>

\* '\n' at the top level.
Newline ==
    /\ AtToken("newline")
    /\ chars' = chars + 1
    /\ tokAt' = chars
    /\ span' = LET sp == StartToken(span) IN [sp EXCEPT !.end = new_line(sp.end)]
    /\ UNCHANGED <<src, lexemes, pc, content, dot, result, hist, out, offset>>

\* `_ if tok.is_whitespace()`
Whitespace ==
    /\ AtToken("whitespace")
    /\ chars' = chars + 1
    /\ tokAt' = chars
    /\ span' = StartToken(span)
    /\ UNCHANGED <<src, lexemes, pc, content, dot, result, hist, out, offset>>

\* `_ => return Err(UnrecognizedToken)`
Unrecognized ==
    /\ AtToken("unrecognized")
    /\ chars' = chars + 1
    /\ tokAt' = chars
    /\ span' = StartToken(span)
    /\ result' = Error("UnrecognizedToken", span')
    /\ pc' = "done"
    /\ UNCHANGED <<src, lexemes, content, dot, hist, out, offset>>

\* The outer loop ends on None: Ok(lexemes).
Finish ==
    /\ pc = "outer"
    /\ Exhausted
    /\ result' = Ok(lexemes)
    /\ pc' = "done"
    /\ UNCHANGED <<src, chars, span, lexemes, content, dot, tokAt, hist, out, offset>>

Next ==
    \/ Symbol
    \/ StringOpen
    \/ StringNext
    \/ StringUnterminated
    \/ NumberStart
    \/ NumberNext
    \/ NumberSecondDot
    \/ NumberEnd
    \/ IdentStart
    \/ IdentNext
    \/ IdentEnd
    \/ CommentStart
    \/ CommentNext
    \/ CommentEnd
    \/ Newline
    \/ Whitespace
    \/ Unrecognized
    \/ Finish

(***************************************************************************)
(* Rendering (src/src/utils.rs, and the Display implementations of         *)
(* src/src/lex.rs).  A rendered text is a sequence of characters; a fixed  *)
(* message is kept as one element.                                         *)
(***************************************************************************)
\* Mutant: every character counts as one byte.
len_utf8_ascii(chr) == 1

\* char::len_utf8 of the characters used here.
len_utf8(chr) == IF chr \in {E_ACUTE, ARABIC_THREE} THEN 2 ELSE 1

\* The loop of extract_offset over the characters not yet walked.
RECURSIVE ExtractWalk(_, _, _, _)
ExtractWalk(rest, loc, off, tar) ==
    IF rest = <<>> THEN off
    ELSE IF loc.line = tar.line /\ loc.col = tar.col THEN off
    ELSE ExtractWalk(Tail(rest),
                     IF Head(rest) = NEWLINE THEN new_line(loc) ELSE new_col(loc),
                     off + len_utf8(Head(rest)),
                     tar)

extract_offset(text, tar) == ExtractWalk(text, DefaultLocation, 0, tar)

\* The byte length of the first k characters of text.
RECURSIVE BytesOf(_, _)
BytesOf(text, k) == IF k = 0 THEN 0 ELSE BytesOf(text, k - 1) + len_utf8(text[k])

\* str::get(a..b): None unless a <= b and both lie on character boundaries.
StrGet(text, a, b) ==
    LET bounds == {k \in 0..Len(text) : BytesOf(text, k) = a}
        ends == {k \in 0..Len(text) : BytesOf(text, k) = b}
    IN  IF a <= b /\ bounds # {} /\ ends # {}
        THEN LET i == CHOOSE k \in bounds : TRUE
                 j == CHOOSE k \in ends : TRUE
             IN  [some |-> TRUE, text |-> [k \in 1..(j - i) |-> text[i + k]]]
        ELSE [some |-> FALSE, text |-> <<>>]

DigitChar(d) ==
    CASE d = 0 -> "0" [] d = 1 -> "1" [] d = 2 -> "2" [] d = 3 -> "3" [] d = 4 -> "4"
      [] d = 5 -> "5" [] d = 6 -> "6" [] d = 7 -> "7" [] d = 8 -> "8" [] d = 9 -> "9"

\* Display for usize.
RECURSIVE FmtUsize(_)
FmtUsize(n) ==
    IF n < 10 THEN <<DigitChar(n)>> ELSE FmtUsize(n \div 10) \o <<DigitChar(n % 10)>>

\* Mutant: the same-line test compares columns where it should compare lines.
SpanDisplayTestsColumns(sp) ==
    IF sp.begin.col = sp.end.col
    THEN <<":">> \o FmtUsize(sp.begin.line) \o <<":">> \o FmtUsize(sp.begin.col)
    ELSE IF sp.begin.line = sp.end.line
    THEN <<":">> \o FmtUsize(sp.begin.line) \o <<" ">> \o FmtUsize(sp.begin.col)
             \o <<".", ".">> \o FmtUsize(sp.end.col)
    ELSE <<" ">> \o FmtUsize(sp.begin.line) \o <<":">> \o FmtUsize(sp.begin.col)
             \o <<".", ".">> \o FmtUsize(sp.end.line) \o <<":">> \o FmtUsize(sp.end.col)

\* impl Display for Span (the same in lex.rs and utils.rs).
SpanDisplay(sp) ==
    IF sp.begin.line = sp.end.line
    THEN IF sp.begin.col = sp.end.col
         THEN <<":">> \o FmtUsize(sp.begin.line) \o <<":">> \o FmtUsize(sp.begin.col)
         ELSE <<":">> \o FmtUsize(sp.begin.line) \o <<" ">> \o FmtUsize(sp.begin.col)
                  \o <<".", ".">> \o FmtUsize(sp.end.col)
    ELSE <<" ">> \o FmtUsize(sp.begin.line) \o <<":">> \o FmtUsize(sp.begin.col)
             \o <<".", ".">> \o FmtUsize(sp.end.line) \o <<":">> \o FmtUsize(sp.end.col)

ErrorKinds == {"MalformedNumber", "UnrecognizedToken", "UnterminatedString"}

\* impl Display for ErrorKind in lex.rs.
LexErrorKindDisplay(kind) ==
    CASE kind = "MalformedNumber" -> <<"encountered malformed number">>
      [] kind = "UnrecognizedToken" -> <<"encountered unrecognized token">>
      [] kind = "UnterminatedString" -> <<"encountered unterminated string">>

\* impl Display for ErrorKind in utils.rs, for ErrorKind::Lexing.
ErrorKindDisplay(kind) ==
    CASE kind = "MalformedNumber" -> <<"encountered malformed number during lexing">>
      [] kind = "UnrecognizedToken" -> <<"encountered unrecognized token during lexing">>
      [] kind = "UnterminatedString" -> <<"encountered unterminated string during lexing">>

\* Source.file of the source being tokenized.
file == <<"a", ".", "p", "c", "f">>

FailedToExtract == <<"<failed to extract offsets of begin and end>">>

\* impl Display for Error in lex.rs.
LexErrorDisplay(err, text) ==
    <<"[">> \o file \o SpanDisplay(err.span) \o <<"]", " ">>
        \o LexErrorKindDisplay(err.kind)

\* impl Display for Error in utils.rs.
ErrorDisplay(err, text) ==
    LET got == StrGet(text, extract_offset(text, err.span.begin),
                      extract_offset(text, err.span.end))
    IN  <<"[">> \o file \o SpanDisplay(err.span) \o <<"]", " ">>
            \o ErrorKindDisplay(err.kind) \o <<NEWLINE>>
            \o (IF got.some THEN got.text ELSE FailedToExtract)

\* An Error value is at hand: lex returned it, or a caller built it.
HasError == pc = "done" /\ result.tag = "Err"

UNCHANGED_lex ==
    UNCHANGED <<src, chars, span, lexemes, content, dot, result, tokAt, hist>>

\* The error is formatted with the Display of lex.rs.
LexErrorFmt ==
    /\ HasError
    /\ out' = LexErrorDisplay(result, src)
    /\ pc' = "LexErrorFmt"
    /\ offset' = offset
    /\ UNCHANGED_lex

\* The error is formatted with the Display of utils.rs.
ErrorFmt ==
    /\ HasError
    /\ out' = ErrorDisplay(result, src)
    /\ pc' = "ErrorFmt"
    /\ offset' = offset
    /\ UNCHANGED_lex

\* The span of the error is formatted.
SpanFmt ==
    /\ HasError
    /\ out' = SpanDisplay(result.span)
    /\ pc' = "SpanFmt"
    /\ offset' = offset
    /\ UNCHANGED_lex

\* src.extract_offset(span.begin)
ExtractOffset ==
    /\ HasError
    /\ offset' = extract_offset(src, result.span.begin)
    /\ pc' = "extract_offset"
    /\ out' = out
    /\ UNCHANGED_lex

NextRender == Next \/ LexErrorFmt \/ ErrorFmt

NextUtils == LexErrorFmt \/ ErrorFmt \/ SpanFmt \/ ExtractOffset

(***************************************************************************)
(* Inputs.  Every specification runs lex on each input of a bounded set.   *)
(***************************************************************************)
Strings(alphabet, n) == UNION {[1..k -> alphabet] : k \in 0..n}

RECURSIVE Flatten(_)
Flatten(pieces) ==
    IF pieces = <<>> THEN <<>> ELSE Head(pieces) \o Flatten(Tail(pieces))

\* One character for every arm of the outer match.
BaseAlphabet == {"=", QUOTE, "1", "a", "#", NEWLINE, " ", "@"}

Alphabet == BaseAlphabet \cup {".", BACKSLASH}

\* The first 18 digits of 2^63; one more digit decides the range.
BigDigits ==
    <<"9", "2", "2", "3", "3", "7", "2", "0", "3",
      "6", "8", "5", "4", "7", "7", "5", "8", "0">>

NumPieces ==
    {<<c>> : c \in BaseAlphabet \cup {".", "-", "+", "0", "7", "8", "9"}}
        \cup {BigDigits}

\* A string literal that holds a line break.
MultiLineString == <<QUOTE, NEWLINE, QUOTE>>

LinesPieces == {<<c>> : c \in BaseAlphabet \cup {"."}} \cup {MultiLineString}

UniAlphabet == BaseAlphabet \cup {".", "_", E_ACUTE, ARABIC_THREE}

\* Every structural symbol, and one character for every other arm.
SymAlphabet == BaseAlphabet \cup {",", "[", "]", "{", "}", "."}

\* Digits, signs, '.', identifier characters, a keyword and a long digit run.
PrecPieces ==
    {<<c>> : c \in BaseAlphabet \cup {".", "-", "+", "_", "8"}}
        \cup {<<"t", "r", "u", "e">>, BigDigits}

\* The keywords, a capitalised keyword, and characters to extend them with.
WordPieces ==
    {<<c>> : c \in BaseAlphabet \cup {".", "_", "x", E_ACUTE}}
        \cup {<<"t", "r", "u", "e">>, <<"f", "a", "l", "s", "e">>, <<"T", "r", "u", "e">>}

LexInit(inputs) ==
    /\ src \in inputs
    /\ chars = 0
    /\ span = DefaultSpan
    /\ lexemes = <<>>
    /\ pc = "outer"
    /\ content = <<>>
    /\ dot = FALSE
    /\ result = Running
    /\ tokAt = 0
    /\ hist = <<>>
    /\ out = <<>>
    /\ offset = 0

Init == LexInit(Strings(Alphabet, MaxLen))

InitNum == LexInit({Flatten(ps) : ps \in Strings(NumPieces, MaxNumLen)})

InitLines == LexInit({Flatten(ps) : ps \in Strings(LinesPieces, MaxLinesLen)})

InitUni == LexInit(Strings(UniAlphabet, MaxUniLen))

InitLive == LexInit(Strings(Alphabet, MaxLiveLen))

InitPrec == LexInit({Flatten(ps) : ps \in Strings(PrecPieces, MaxPrecLen)})

InitSym == LexInit(Strings(SymAlphabet, MaxSymLen))

\* An ASCII character, a line break and a two-byte character.
UtilAlphabet == {"a", NEWLINE, E_ACUTE}

\* Lines and columns are usize: 0 is a value, and so is a two-digit number.
Coords == (0..MaxCoord) \cup {12}

Locations == {Location(l, c) : l \in Coords, c \in Coords}

\* An Error built by a caller (Error::new) over any content and any span.
InitUtils ==
    /\ src \in Strings(UtilAlphabet, MaxUtilLen)
    /\ result \in {Error(k, Span(b, e)) : k \in ErrorKinds, b \in Locations, e \in Locations}
    /\ pc = "done"
    /\ chars = 0
    /\ span = DefaultSpan
    /\ lexemes = <<>>
    /\ content = <<>>
    /\ dot = FALSE
    /\ tokAt = 0
    /\ hist = <<>>
    /\ out = <<>>
    /\ offset = 0

InitWords == LexInit({Flatten(ps) : ps \in Strings(WordPieces, MaxWordsLen)})

Spec == Init /\ [][Next]_vars

SpecNum == InitNum /\ [][Next]_vars

SpecLines == InitLines /\ [][Next]_vars

SpecUni == InitUni /\ [][Next]_vars

SpecWords == InitWords /\ [][Next]_vars

SpecSym == InitSym /\ [][Next]_vars

SpecPrec == InitPrec /\ [][Next]_vars

\* lex is one sequential call: a step that can be taken is taken.
SpecLive == InitLive /\ [][Next]_vars /\ WF_vars(Next)

SpecRender == InitLines /\ [][NextRender]_vars

SpecUtils == InitUtils /\ [][NextUtils]_vars

(***************************************************************************)
(* Reference notions the properties are stated with.  They are defined     *)
(* from the source text alone, not from the tokenizer's operators.         *)
(***************************************************************************)
Slice(s, a, b) == [i \in 1..(b - a + 1) |-> s[a + i - 1]]

NewlinesIn(s, n) == {i \in 1..n : s[i] = NEWLINE}

LastNewline(s, n) ==
    IF NewlinesIn(s, n) = {} THEN 0
    ELSE CHOOSE i \in NewlinesIn(s, n) : \A j \in NewlinesIn(s, n) : j <= i

\* The 1-indexed (line, col) reached after the first n characters of s.
TruePos(s, n) ==
    [line |-> 1 + Cardinality(NewlinesIn(s, n)), col |-> n - LastNewline(s, n) + 1]

TrueSpan(s, first, last) ==
    [begin |-> TruePos(s, first - 1), end |-> TruePos(s, last)]

\* The derived lexicographic order of Location.
LocLeq(a, b) == a.line < b.line \/ (a.line = b.line /\ a.col <= b.col)

StructuralChars == {"=", ",", "[", "]", "{", "}"}

SpaceChars == {" ", "\t", NEWLINE}

NumberStartChars == AsciiDigits \cup {"-", "+", "."}

IdentChars == AsciiDigits \cup AsciiLetters \cup {"_"}

\* A character that belongs to no recognized class.
IsFaultChar(c) ==
    c \notin StructuralChars \cup SpaceChars \cup NumberStartChars
                \cup IdentChars \cup {QUOTE, "#"}

\* The characters of s covered by the lexemes pushed so far.
Covered(i) == \E k \in 1..Len(hist) : hist[k].first <= i /\ i <= hist[k].last

\* An uncovered character is white space or lies in a comment opened by an
\* uncovered '#' on the same line.
Skippable(i) ==
    \/ src[i] \in SpaceChars
    \/ \E c \in 1..i : /\ src[c] = "#"
                       /\ ~Covered(c)
                       /\ \A j \in c..(i - 1) : src[j] # NEWLINE /\ ~Covered(j)

(***************************************************************************)
(* C1.  Position tracking: after every step the running span.end is the    *)
(* true (line, col) reached after the characters consumed so far (one      *)
(* column per character, a new line at column 1 per '\n', wherever the     *)
(* '\n' is consumed); the span of every pushed lexeme and of a returned    *)
(* error runs from the true position of its first character to the true    *)
(* position after its last consumed character.                             *)
(***************************************************************************)
C1_PositionTracking ==
    /\ span.end = TruePos(src, chars)
    /\ \A k \in 1..Len(lexemes) :
          lexemes[k].span = TrueSpan(src, hist[k].first, hist[k].last)
    /\ result.tag = "Err" => result.span = TrueSpan(src, tokAt + 1, chars)

(***************************************************************************)
(* C2.  String escaping: a '"' immediately preceded by a backslash inside  *)
(* a string body does not close the string, so no String lexeme ends at    *)
(* such a quote.                                                           *)
(***************************************************************************)
C2_EscapedQuoteDoesNotClose ==
    \A k \in 1..Len(lexemes) :
        lexemes[k].kind.tag = "String" => src[hist[k].last - 1] # BACKSLASH

(***************************************************************************)
(* C3.  Position monotonicity: on success every lexeme has begin <= end    *)
(* and adjacent lexemes a, b have a.span.end <= b.span.begin, both in the  *)
(* lexicographic order of (line, col).                                     *)
(***************************************************************************)
C3_PositionMonotonicity ==
    result.tag = "Ok" =>
        /\ \A k \in 1..Len(result.lexemes) :
              LocLeq(result.lexemes[k].span.begin, result.lexemes[k].span.end)
        /\ \A k \in 1..(Len(result.lexemes) - 1) :
              LocLeq(result.lexemes[k].span.end, result.lexemes[k + 1].span.begin)

\* A successful stream of several lexemes that reaches a second line.
C3_Witness ==
    /\ result.tag = "Ok"
    /\ Len(result.lexemes) >= 2
    /\ result.lexemes[Len(result.lexemes)].span.begin.line > 1
    /\ result.lexemes[1].span.end.col > 2

(***************************************************************************)
(* Well-formed number texts, read off the text digit by digit.             *)
(***************************************************************************)
Unsigned(t) == IF t # <<>> /\ t[1] \in {"-", "+"} THEN Slice(t, 2, Len(t)) ELSE t

\* An optional single leading sign followed by at least one ASCII digit.
IsIntText(t) ==
    /\ Unsigned(t) # <<>>
    /\ \A i \in 1..Len(Unsigned(t)) : Unsigned(t)[i] \in AsciiDigits

\* The digits of ds from its first non-zero digit on.
Significant(ds) ==
    LET nz == {i \in 1..Len(ds) : ds[i] # "0"}
    IN  IF nz = {} THEN <<>>
        ELSE Slice(ds, CHOOSE i \in nz : \A j \in nz : i <= j, Len(ds))

DigitOrder == <<"0", "1", "2", "3", "4", "5", "6", "7", "8", "9">>

Rank(c) == CHOOSE r \in 1..Len(DigitOrder) : DigitOrder[r] = c

\* a <= b for digit strings of equal length.
DigitsLeq(a, b) ==
    \/ a = b
    \/ \E i \in 1..Len(a) : /\ Rank(a[i]) < Rank(b[i])
                            /\ \A j \in 1..(i - 1) : a[j] = b[j]

TwoTo63 ==
    <<"9", "2", "2", "3", "3", "7", "2", "0", "3", "6",
      "8", "5", "4", "7", "7", "5", "8", "0", "8">>

TwoTo63Less1 == [TwoTo63 EXCEPT ![Len(TwoTo63)] = "7"]

\* The value of an integer text lies in [-2^63, 2^63 - 1].
InI64Range(t) ==
    LET ds == Significant(Unsigned(t))
        limit == IF t[1] = "-" THEN TwoTo63 ELSE TwoTo63Less1
    IN  \/ Len(ds) < Len(limit)
        \/ Len(ds) = Len(limit) /\ DigitsLeq(ds, limit)

\* An optional sign, digits and exactly one '.', with at least one digit.
IsFloatText(t) ==
    LET u == Unsigned(t)
    IN  /\ Cardinality({i \in 1..Len(u) : u[i] = "."}) = 1
        /\ \A i \in 1..Len(u) : u[i] \in AsciiDigits \cup {"."}
        /\ Len(u) >= 2

IsNumberText(t) ==
    IF \E i \in 1..Len(t) : t[i] = "." THEN IsFloatText(t)
    ELSE IsIntText(t) /\ InI64Range(t)

NumberBody == AsciiDigits \cup {"."}

\* A '"' immediately preceded by a backslash is a literal quote character.
Escaped(i) == i > 1 /\ src[i - 1] = BACKSLASH

\* No unescaped '"' in src[a..b].
NoClosingQuote(a, b) == \A i \in a..b : src[i] = QUOTE => Escaped(i)

\* src[first..last] is one well-formed token that ends where its class ends.
WellFormedToken(first, last) ==
    LET c == src[first]
        open == last = Len(src) \/ src[last + 1] \notin NumberBody
    IN  IF c \in StructuralChars THEN last = first
        ELSE IF c = QUOTE
        THEN /\ last > first
             /\ src[last] = QUOTE /\ ~Escaped(last)
             /\ NoClosingQuote(first + 1, last - 1)
        ELSE IF c \in NumberStartChars
        THEN /\ \A i \in (first + 1)..last : src[i] \in NumberBody
             /\ IsNumberText(Slice(src, first, last))
             /\ open
        ELSE IF c \in IdentChars
        THEN /\ \A i \in first..last : src[i] \in IdentChars
             /\ last = Len(src) \/ src[last + 1] \notin IdentChars
        ELSE FALSE

\* The first n characters hold well-formed tokens, white space and comments only.
NoFaultBefore(n) ==
    /\ \A k \in 1..Len(hist) :
          hist[k].last <= n /\ WellFormedToken(hist[k].first, hist[k].last)
    /\ \A i \in 1..n : Covered(i) \/ Skippable(i)

\* The token the error is about starts at tokAt + 1, is a fault of the kind
\* reported, and nothing past it has been consumed.
FaultAtCursor ==
    LET f == tokAt + 1
    IN  CASE result.kind = "UnrecognizedToken" ->
                IsFaultChar(src[f]) /\ chars = f
          [] result.kind = "UnterminatedString" ->
                /\ src[f] = QUOTE
                /\ chars = Len(src)
                /\ NoClosingQuote(f + 1, Len(src))
          [] result.kind = "MalformedNumber" ->
                /\ src[f] \in NumberStartChars
                /\ \A i \in (f + 1)..chars : src[i] \in NumberBody
                /\ IF chars < Len(src) /\ src[chars + 1] = "."
                   THEN \E i \in f..chars : src[i] = "."
                   ELSE /\ chars = Len(src) \/ src[chars + 1] \notin NumberBody
                        /\ ~IsNumberText(Slice(src, f, chars))
          [] OTHER -> FALSE

(***************************************************************************)
(* C4.  Halt on first error: lex returns the complete stream or exactly    *)
(* one error, never both.  A success means the whole input was consumed    *)
(* and holds no fault.  An error is about the leftmost fault: everything   *)
(* before the failing token is well-formed, the failing token is a fault   *)
(* of the reported kind, no character past it has been consumed, the       *)
(* lexemes accumulated so far are not returned, and nothing runs after     *)
(* the return.                                                             *)
(***************************************************************************)
C4_HaltOnFirstError ==
    /\ (pc = "done") = (result.tag \in {"Ok", "Err"})
    /\ result.tag = "Ok" =>
          /\ chars = Len(src)
          /\ result.lexemes = lexemes
          /\ NoFaultBefore(Len(src))
    /\ result.tag = "Err" =>
          /\ result.lexemes = <<>>
          /\ NoFaultBefore(tokAt)
          /\ FaultAtCursor
    /\ pc = "done" => ~ENABLED Next

(***************************************************************************)
(* C5.  Unterminated string: a string whose opening quote is followed by   *)
(* no unescaped '"' before the input ends fails with UnterminatedString    *)
(* (it is never pushed as a lexeme), and the error span runs from the      *)
(* position of the opening quote to the position after the last character  *)
(* of the input.                                                           *)
(***************************************************************************)
C5_UnterminatedString ==
    /\ result.kind = "UnterminatedString" =>
          /\ src[tokAt + 1] = QUOTE
          /\ NoClosingQuote(tokAt + 2, Len(src))
          /\ result.span = TrueSpan(src, tokAt + 1, Len(src))
    /\ \A k \in 1..Len(lexemes) :
          lexemes[k].kind.tag = "String" =>
              ~NoClosingQuote(hist[k].first + 1, Len(src))

(***************************************************************************)
(* C6.  ASCII-only classification: a non-ASCII character is never part of  *)
(* the text of an identifier or number being scanned, never part of an     *)
(* Ident, Bool, Integer or Float lexeme, and never part of a text that     *)
(* numeric parsing rejected.                                               *)
(***************************************************************************)
NonAscii == {E_ACUTE, ARABIC_THREE}

C6_AsciiOnlyClassification ==
    /\ pc \in {"number", "ident"} =>
          \A i \in 1..Len(content) : content[i] \notin NonAscii
    /\ \A k \in 1..Len(lexemes) :
          lexemes[k].kind.tag \in {"Ident", "Bool", "Integer", "Float"} =>
              \A i \in hist[k].first..hist[k].last : src[i] \notin NonAscii
    /\ result.kind = "MalformedNumber" =>
          \A i \in (tokAt + 1)..chars : src[i] \notin NonAscii

(***************************************************************************)
(* C7.  Unrecognized input: a token that starts on a character of no       *)
(* recognized class fails with UnrecognizedToken, and only such a token    *)
(* does; the error span begins at the position of that character and ends  *)
(* one column past it on the same line.                                    *)
(***************************************************************************)
C7_UnrecognizedToken ==
    /\ (chars > 0 /\ IsFaultChar(src[tokAt + 1])) =>
          result.kind = "UnrecognizedToken"
    /\ result.kind = "UnrecognizedToken" =>
          /\ IsFaultChar(src[tokAt + 1])
          /\ chars = tokAt + 1
          /\ result.span.begin = TruePos(src, tokAt)
          /\ result.span.end =
                [line |-> result.span.begin.line, col |-> result.span.begin.col + 1]

(***************************************************************************)
(* C8.  Second decimal point: a second '.' is never consumed into a        *)
(* number; meeting it fails with MalformedNumber, and the error span       *)
(* covers the number so far: from the position of the number's first       *)
(* character to the position after the last character consumed before     *)
(* that '.'.                                                               *)
(***************************************************************************)
Dots(t) == {i \in 1..Len(t) : t[i] = "."}

C8_SecondDecimalPoint ==
    /\ pc = "number" => Cardinality(Dots(content)) <= 1
    /\ \A k \in 1..Len(lexemes) :
          lexemes[k].kind.tag \in {"Integer", "Float"} =>
              /\ Cardinality(Dots(Slice(src, hist[k].first, hist[k].last))) <= 1
              /\ hist[k].last < Len(src) => src[hist[k].last + 1] # "."
    /\ (result.kind = "MalformedNumber" /\ chars < Len(src) /\ src[chars + 1] = ".") =>
          /\ Dots(Slice(src, tokAt + 1, chars)) # {}
          /\ result.span = TrueSpan(src, tokAt + 1, chars)

(***************************************************************************)
(* C10.  Comments and white space are silent: nothing is pushed and no     *)
(* error is raised while a comment is scanned, whatever it holds; no       *)
(* lexeme starts on a white-space character or on '#'; in an output        *)
(* stream every character outside the lexemes is white space or comment    *)
(* text, no span begins at the position of such a character, and a lexeme  *)
(* after a comment's closing line break begins on a line after the         *)
(* comment's.                                                              *)
(***************************************************************************)
\* The line break at j closes a comment.
ClosesComment(j) == src[j] = NEWLINE /\ j > 1 /\ ~Covered(j) /\ ~Covered(j - 1)
                        /\ Skippable(j - 1) /\ src[j - 1] \notin SpaceChars

C10_CommentsAndWhitespaceSilent ==
    /\ pc = "comment" =>
          /\ src[tokAt + 1] = "#"
          /\ \A k \in 1..Len(hist) : hist[k].last <= tokAt
          /\ result.tag # "Err"
    /\ \A k \in 1..Len(hist) : src[hist[k].first] \notin SpaceChars \cup {"#"}
    /\ result.tag = "Err" => src[tokAt + 1] \notin SpaceChars \cup {"#"}
    /\ result.tag = "Ok" =>
          /\ \A i \in 1..Len(src) : Covered(i) \/ Skippable(i)
          /\ \A k \in 1..Len(result.lexemes) : \A i \in 1..Len(src) :
                ~Covered(i) => result.lexemes[k].span.begin # TruePos(src, i - 1)
          /\ \A k \in 1..Len(result.lexemes) : \A j \in 1..Len(src) :
                (ClosesComment(j) /\ hist[k].first > j) =>
                    result.lexemes[k].span.begin.line >= TruePos(src, j).line

(***************************************************************************)
(* C9.  Integer parsing range: a number token with no '.' is pushed as     *)
(* Integer(v) exactly when its text is an optional single sign followed    *)
(* by at least one digit and its value v lies in [-2^63, 2^63 - 1], and v  *)
(* is that value; every other such token fails with MalformedNumber.  A    *)
(* token that starts with a sign is always scanned as a number.            *)
(***************************************************************************)
DigitAt(n, p) == DigitOrder[((n \div (10 ^ p)) % 10) + 1]

SixDigits(n) ==
    <<DigitAt(n, 5), DigitAt(n, 4), DigitAt(n, 3), DigitAt(n, 2), DigitAt(n, 1), DigitAt(n, 0)>>

\* The decimal digits of the magnitude held in the limbs <<hi, mid, lo>>.
Decimal(mag) ==
    Significant(<<DigitAt(mag[1], 6)>> \o SixDigits(mag[1]) \o SixDigits(mag[2]) \o SixDigits(mag[3]))

TokenText(k) == Slice(src, hist[k].first, hist[k].last)

C9_IntegerParsingRange ==
    /\ \A k \in 1..Len(lexemes) :
          lexemes[k].kind.tag = "Integer" =>
              /\ IsIntText(TokenText(k))
              /\ InI64Range(TokenText(k))
              /\ Decimal(lexemes[k].kind.val.mag) = Significant(Unsigned(TokenText(k)))
              /\ lexemes[k].kind.val.neg =
                    (TokenText(k)[1] = "-" /\ Significant(Unsigned(TokenText(k))) # <<>>)
    /\ \A k \in 1..Len(lexemes) :
          src[hist[k].first] \in NumberStartChars =>
              /\ lexemes[k].kind.tag \in {"Integer", "Float"}
              /\ (lexemes[k].kind.tag = "Float") = (Dots(TokenText(k)) # {})
    /\ (result.kind = "MalformedNumber" /\ Dots(Slice(src, tokAt + 1, chars)) = {}) =>
          ~(IsIntText(Slice(src, tokAt + 1, chars)) /\ InI64Range(Slice(src, tokAt + 1, chars)))
    /\ (chars > 0 /\ src[tokAt + 1] \in {"-", "+"}) =>
          \/ pc = "number"
          \/ result.kind = "MalformedNumber"
          \/ \E k \in 1..Len(lexemes) :
                hist[k].first = tokAt + 1 /\ lexemes[k].kind.tag \in {"Integer", "Float"}

\* The least 64-bit integer has been parsed and returned.
C9_Witness ==
    /\ result.tag = "Ok"
    /\ Len(lexemes) = 1
    /\ lexemes[1].kind.tag = "Integer"
    /\ lexemes[1].kind.val.neg
    /\ lexemes[1].kind.val.mag = I64MinLimbs

(***************************************************************************)
(* C11.  Identifiers and keywords: an Ident or Bool lexeme covers the       *)
(* maximal run of identifier characters (ASCII letters, ASCII digits, '_')  *)
(* that starts at its first character; a token that starts on a letter or   *)
(* '_' is scanned as an identifier and never fails; the text "true" gives   *)
(* Bool(true), the text "false" gives Bool(false), and every other text     *)
(* gives Ident with exactly that text.                                      *)
(***************************************************************************)
TrueText == <<"t", "r", "u", "e">>

FalseText == <<"f", "a", "l", "s", "e">>

IdentStartChars == AsciiLetters \cup {"_"}

C11_IdentifiersAndKeywords ==
    /\ \A k \in 1..Len(lexemes) :
          lexemes[k].kind.tag \in {"Ident", "Bool"} =>
              /\ \A i \in hist[k].first..hist[k].last : src[i] \in IdentChars
              /\ hist[k].last = Len(src) \/ src[hist[k].last + 1] \notin IdentChars
              /\ lexemes[k].kind =
                    IF TokenText(k) = TrueText THEN [tag |-> "Bool", val |-> TRUE]
                    ELSE IF TokenText(k) = FalseText THEN [tag |-> "Bool", val |-> FALSE]
                    ELSE [tag |-> "Ident", val |-> TokenText(k)]
    /\ \A k \in 1..Len(lexemes) :
          src[hist[k].first] \in IdentStartChars =>
              lexemes[k].kind.tag \in {"Ident", "Bool"}
    /\ (chars > 0 /\ src[tokAt + 1] \in IdentStartChars) =>
          /\ result.tag # "Err"
          /\ pc = "ident" => content = Slice(src, tokAt + 1, chars)

(***************************************************************************)
(* C12.  Structural symbols: a token that starts on one of '=' ',' '[' ']'  *)
(* '{' '}' is that single character; it is pushed at once, with no          *)
(* lookahead and no error, as one lexeme of kind Equal, Comma, LBrack,      *)
(* RBrack, LBrace, RBrace respectively, whose span ends one column after    *)
(* its begin on the same line; no other text gives a lexeme of these        *)
(* kinds; an input of n structural symbols gives exactly n lexemes, in the  *)
(* order of the input.                                                      *)
(***************************************************************************)
SymbolNames ==
    { <<"=", "Equal">>, <<",", "Comma">>, <<"[", "LBrack">>, <<"]", "RBrack">>,
      <<"{", "LBrace">>, <<"}", "RBrace">> }

IsSymbolLexeme(lx, c) == <<c, lx.kind.tag>> \in SymbolNames /\ lx.kind.val = <<>>

OneColumnWide(sp) ==
    sp.end.line = sp.begin.line /\ sp.end.col = sp.begin.col + 1

OnlySymbols == \A i \in 1..Len(src) : src[i] \in StructuralChars

C12_StructuralSymbols ==
    /\ \A k \in 1..Len(lexemes) :
          (\/ src[hist[k].first] \in StructuralChars
           \/ \E p \in SymbolNames : p[2] = lexemes[k].kind.tag) =>
              /\ hist[k].last = hist[k].first
              /\ IsSymbolLexeme(lexemes[k], src[hist[k].first])
              /\ OneColumnWide(lexemes[k].span)
    /\ (chars > 0 /\ src[tokAt + 1] \in StructuralChars) =>
          /\ chars = tokAt + 1
          /\ hist # <<>> /\ hist[Len(hist)].first = chars
          /\ result.tag # "Err"
    /\ OnlySymbols =>
          /\ Len(lexemes) = chars
          /\ \A i \in 1..chars : IsSymbolLexeme(lexemes[i], src[i])
          /\ pc = "done" => result = [tag |-> "Ok", kind |-> "", span |-> DefaultSpan,
                                      lexemes |-> lexemes]

\* Three different symbols, the brackets among them, have been returned.
C12_Witness ==
    /\ result.tag = "Ok"
    /\ src = <<"[", "=", "]">>
    /\ Len(result.lexemes) = 3
    /\ result.lexemes[3].kind.tag = "RBrack"

(***************************************************************************)
(* Rendered texts, written out from the formats the specification gives.   *)
(***************************************************************************)
\* The decimal numeral of n (n < 10^6).
Numeral(n) == IF n = 0 THEN <<"0">> ELSE Significant(SixDigits(n))

ZeroWidth(sp) == sp.begin = sp.end

SameLineRange(sp) == sp.begin.line = sp.end.line /\ sp.begin.col # sp.end.col

MultiLineRange(sp) == sp.begin.line # sp.end.line

SpanText(sp) ==
    IF ZeroWidth(sp)
    THEN <<":">> \o Numeral(sp.begin.line) \o <<":">> \o Numeral(sp.begin.col)
    ELSE IF SameLineRange(sp)
    THEN <<":">> \o Numeral(sp.begin.line) \o <<" ">> \o Numeral(sp.begin.col)
             \o <<".", ".">> \o Numeral(sp.end.col)
    ELSE <<" ">> \o Numeral(sp.begin.line) \o <<":">> \o Numeral(sp.begin.col)
             \o <<".", ".">> \o Numeral(sp.end.line) \o <<":">> \o Numeral(sp.end.col)

\* A kind description: one fixed message.
IsDescription(d) == d \notin {"[", "]", " ", NEWLINE}

\* `[<file><span>] <description>` followed by a line break and `body`.
IsRendering(text, sp, body) ==
    LET head == <<"[">> \o file \o SpanText(sp) \o <<"]", " ">>
        n == Len(head)
    IN  /\ Len(text) = n + 2 + Len(body)
        /\ \A i \in 1..n : text[i] = head[i]
        /\ IsDescription(text[n + 1])
        /\ text[n + 2] = NEWLINE
        /\ \A i \in 1..Len(body) : text[n + 2 + i] = body[i]

Rendered == pc \in {"LexErrorFmt", "ErrorFmt"}

(***************************************************************************)
(* C13.  Error rendering excerpt: the rendering of an error that lex        *)
(* returned is `[<file><span>] <description>`, a line break, and then the   *)
(* offending text, which is the text of the failing token: the characters   *)
(* from its first one to the last one consumed when the error was raised.   *)
(***************************************************************************)
C13_ErrorRenderingExcerpt ==
    Rendered => IsRendering(out, result.span, Slice(src, tokAt + 1, chars))

(***************************************************************************)
(* C14.  Source::extract_offset: the result is the byte offset (the sum of  *)
(* the UTF-8 lengths of the characters before it) of the first character    *)
(* whose (line, col), counted from (1,1) with every '\n' starting a new     *)
(* line at column 1, is the target; when no character is at the target,    *)
(* the result is the byte length of the content.  The result never exceeds  *)
(* the byte length of the content.                                          *)
(***************************************************************************)
\* The UTF-8 length of the first n characters of s.
Utf8Length(s, n) == n + Cardinality({j \in 1..n : s[j] \in NonAscii})

\* The characters of s that stand at the location tar.
CharsAt(s, tar) == {i \in 1..Len(s) : TruePos(s, i - 1) = tar}

OffsetOf(s, tar) ==
    IF CharsAt(s, tar) = {} THEN Utf8Length(s, Len(s))
    ELSE Utf8Length(s, (CHOOSE i \in CharsAt(s, tar) : \A j \in CharsAt(s, tar) : i <= j) - 1)

C14_ExtractOffset ==
    pc = "extract_offset" =>
        /\ offset = OffsetOf(src, result.span.begin)
        /\ offset <= Utf8Length(src, Len(src))

\* The target is reached on the second line, after a two-byte character.
C14_Witness ==
    /\ pc = "extract_offset"
    /\ src = <<E_ACUTE, NEWLINE, "a">>
    /\ result.span.begin = [line |-> 2, col |-> 1]
    /\ offset = 3

(***************************************************************************)
(* C16.  Span display: a span is formatted as `:<line>:<col>` when begin    *)
(* equals end, as `:<line> <col1>..<col2>` when begin and end are on the    *)
(* same line with different columns, and as                                 *)
(* ` <line1>:<col1>..<line2>:<col2>` when they are on different lines;      *)
(* exactly one of the three cases applies to a span.                        *)
(***************************************************************************)
FormsOf(sp) ==
    {f \in {"zero-width", "same-line", "multi-line"} :
        \/ f = "zero-width" /\ ZeroWidth(sp)
        \/ f = "same-line" /\ SameLineRange(sp)
        \/ f = "multi-line" /\ MultiLineRange(sp)}

C16_SpanDisplay ==
    pc = "SpanFmt" =>
        /\ out = SpanText(result.span)
        /\ Cardinality(FormsOf(result.span)) = 1
        /\ ZeroWidth(result.span) =>
              out = <<":">> \o Numeral(result.span.end.line)
                        \o <<":">> \o Numeral(result.span.end.col)

\* A multi-line span with a two-digit column has been formatted.
C16_Witness ==
    /\ pc = "SpanFmt"
    /\ result.span = [begin |-> [line |-> 1, col |-> 12], end |-> [line |-> 2, col |-> 0]]
    /\ out = <<" ", "1", ":", "1", "2", ".", ".", "2", ":", "0">>

(***************************************************************************)
(* C15.  Termination and single pass: lex eventually returns.  The cursor   *)
(* only moves forward, one character per step; every iteration of the       *)
(* outer loop, and every iteration of an inner scanning loop that stays in  *)
(* the loop, consumes one character; a character that was only peeked at    *)
(* is not consumed, so every token starts on the first character not yet    *)
(* consumed and the lexemes cover disjoint, increasing stretches of the     *)
(* consumed input; on success the whole input has been consumed.            *)
(***************************************************************************)
InnerLoops == {"string", "number", "ident", "comment"}

SinglePassStep ==
    /\ chars' \in {chars, chars + 1}
    /\ (pc = "outer" /\ result'.tag # "Ok") => (chars' = chars + 1 /\ tokAt' = chars)
    /\ (pc \in InnerLoops /\ pc' = pc) => (chars' = chars + 1 /\ tokAt' = tokAt)
    /\ (pc \in {"number", "ident"} /\ pc' # pc) => chars' = chars

ConsumedOnce ==
    /\ tokAt <= chars /\ chars <= Len(src)
    /\ \A k \in 1..Len(hist) :
          hist[k].first <= hist[k].last /\ hist[k].last <= chars
    /\ \A k \in 1..(Len(hist) - 1) : hist[k].last < hist[k + 1].first
    /\ result.tag = "Ok" => chars = Len(src)

C15_TerminationSinglePass ==
    /\ <>(pc = "done")
    /\ [][SinglePassStep]_vars
    /\ []ConsumedOnce

\* A successful scan that went through a number and an identifier loop.
C15_Witness ==
    /\ result.tag = "Ok"
    /\ chars = Len(src)
    /\ Len(src) = 3
    /\ Len(hist) = 2
    /\ src[hist[2].first] = "a"
    /\ src[1] = "1"

(***************************************************************************)
(* C17.  Span contiguity: in a successful output stream, with a, b         *)
(* adjacent lexemes: if no character lies between them, b.span.begin =      *)
(* a.span.end; if only k white-space characters other than '\n' lie         *)
(* between them, b.span.begin is a.span.end advanced by k columns; in       *)
(* general b.span.begin is a.span.end advanced over exactly the skipped     *)
(* characters between them (a line per '\n', a column per other            *)
(* character), so the skipped characters lie before the span of b; the     *)
(* same holds for the first lexeme, counted from (1,1); and no two spans   *)
(* overlap.                                                                 *)
(***************************************************************************)
\* The line breaks among src[a..b].
BreaksIn(a, b) == {i \in a..b : src[i] = NEWLINE}

\* loc advanced over the characters src[a..b].
AdvancedOver(loc, a, b) ==
    IF BreaksIn(a, b) = {}
    THEN [line |-> loc.line, col |-> loc.col + (b - a + 1)]
    ELSE [line |-> loc.line + Cardinality(BreaksIn(a, b)),
          col |-> 1 + b - (CHOOSE i \in BreaksIn(a, b) : \A j \in BreaksIn(a, b) : j <= i)]

LocLess(a, b) == a.line < b.line \/ (a.line = b.line /\ a.col < b.col)

C17_SpanContiguity ==
    result.tag = "Ok" =>
        /\ \A k \in 1..(Len(result.lexemes) - 1) :
              LET a == result.lexemes[k]
                  b == result.lexemes[k + 1]
                  from == hist[k].last + 1
                  to == hist[k + 1].first - 1
              IN  /\ from > to => b.span.begin = a.span.end
                  /\ (\A i \in from..to : src[i] \in {" ", "\t"}) =>
                        b.span.begin =
                            [line |-> a.span.end.line,
                             col |-> a.span.end.col + (to - from + 1)]
                  /\ b.span.begin = AdvancedOver(a.span.end, from, to)
                  /\ from <= to => LocLess(a.span.end, b.span.begin)
        /\ Len(result.lexemes) > 0 =>
              result.lexemes[1].span.begin =
                  AdvancedOver(DefaultLocation, 1, hist[1].first - 1)
        /\ \A k \in 1..Len(result.lexemes) : \A m \in (k + 1)..Len(result.lexemes) :
              LocLeq(result.lexemes[k].span.end, result.lexemes[m].span.begin)

\* Two lexemes with a comment and its line break between them.
C17_Witness ==
    /\ result.tag = "Ok"
    /\ src = <<"=", "#", NEWLINE, "=">>
    /\ Len(result.lexemes) = 2
    /\ result.lexemes[2].span.begin = [line |-> 2, col |-> 1]

(***************************************************************************)
(* Dispatch precedence: the cases the statements below speak of.           *)
(***************************************************************************)
\* src[a..b] is a non-empty run of digits.
DigitRun(a, b) == a <= b /\ \A i \in a..b : src[i] \in AsciiDigits

\* An identifier character that can start an identifier follows src[b].
FollowedByIdent(b) == b < Len(src) /\ src[b + 1] \in IdentStartChars

\* A sign or '.' at j with no digit in the number text that starts there.
NoDigitNumber(j) ==
    /\ src[j] \in {"-", "+", "."}
    /\ \A i \in (j + 1)..Len(src) :
          (\A m \in (j + 1)..i : src[m] \in NumberBody) => src[i] = "."

\* A token that starts on a digit is scanned as a number.
DigitStartsNumber ==
    /\ \A k \in 1..Len(lexemes) :
          /\ src[hist[k].first] \in AsciiDigits =>
                lexemes[k].kind.tag \in {"Integer", "Float"}
          /\ lexemes[k].kind.tag \in {"Ident", "Bool"} =>
                src[hist[k].first] \notin AsciiDigits
          /\ lexemes[k].kind.tag = "Ident" =>
                lexemes[k].kind.val[1] \notin AsciiDigits
    /\ (chars > 0 /\ src[tokAt + 1] \in AsciiDigits) =>
          \/ pc = "number"
          \/ result.kind = "MalformedNumber"
          \/ /\ hist # <<>> /\ hist[Len(hist)].first = tokAt + 1
             /\ lexemes[Len(lexemes)].kind.tag \in {"Integer", "Float"}

\* An identifier followed by a sign or '.' and no digit: MalformedNumber.
IdentThenSignFails ==
    \A k \in 1..Len(lexemes) :
        (/\ lexemes[k].kind.tag \in {"Ident", "Bool"}
         /\ hist[k].last < Len(src)
         /\ NoDigitNumber(hist[k].last + 1)) =>
            /\ Len(lexemes) = k
            /\ pc = "done" =>
                  /\ result.tag = "Err"
                  /\ result.kind = "MalformedNumber"
                  /\ tokAt = hist[k].last

(***************************************************************************)
(* C18, as stated.  A token that starts on a digit is scanned as a number  *)
(* and no Ident or Bool lexeme begins with a digit; a digit run directly   *)
(* followed by identifier characters never fails and gives an Integer      *)
(* lexeme followed by an Ident lexeme; an identifier directly followed by  *)
(* '-', '+' or '.' with no digits after it fails with MalformedNumber.     *)
(***************************************************************************)
C18_SplitIntoIntegerAndIdent ==
    /\ DigitStartsNumber
    /\ IdentThenSignFails
    /\ result.kind = "MalformedNumber" =>
          ~(DigitRun(tokAt + 1, chars) /\ FollowedByIdent(chars))
    /\ \A k \in 1..Len(lexemes) :
          (DigitRun(hist[k].first, hist[k].last) /\ FollowedByIdent(hist[k].last)) =>
              /\ lexemes[k].kind.tag = "Integer"
              /\ Len(lexemes) > k =>
                    /\ hist[k + 1].first = hist[k].last + 1
                    /\ lexemes[k + 1].kind.tag = "Ident"

(***************************************************************************)
(* C18, amended.  A token that starts on a digit is scanned as a number    *)
(* and no Ident or Bool lexeme begins with a digit; a digit run whose      *)
(* value fits a signed 64-bit integer and which is directly followed by    *)
(* identifier characters is split, without error and without separator,    *)
(* into an Integer lexeme and the lexeme of the identifier text (Bool for  *)
(* "true" and "false", Ident otherwise), while a digit run that does not   *)
(* fit fails with MalformedNumber; an identifier directly followed by      *)
(* '-', '+' or '.' with no digits after it fails with MalformedNumber.     *)
(***************************************************************************)
C18_DispatchPrecedence ==
    /\ DigitStartsNumber
    /\ IdentThenSignFails
    /\ (/\ result.kind = "MalformedNumber"
        /\ DigitRun(tokAt + 1, chars)
        /\ FollowedByIdent(chars)) => ~InI64Range(Slice(src, tokAt + 1, chars))
    /\ \A k \in 1..Len(lexemes) :
          (DigitRun(hist[k].first, hist[k].last) /\ FollowedByIdent(hist[k].last)) =>
              /\ lexemes[k].kind.tag = "Integer"
              /\ InI64Range(TokenText(k))
              /\ Len(lexemes) = k => (result.tag # "Err" /\ pc # "done")
              /\ Len(lexemes) > k =>
                    /\ hist[k + 1].first = hist[k].last + 1
                    /\ lexemes[k + 1].span.begin = lexemes[k].span.end
                    /\ lexemes[k + 1].kind.tag =
                          IF TokenText(k + 1) \in {TrueText, FalseText}
                          THEN "Bool" ELSE "Ident"

\* A digit directly followed by the keyword text: Integer, then Bool.
C18_Witness ==
    /\ result.tag = "Ok"
    /\ src = <<"1", "t", "r", "u", "e">>
    /\ Len(result.lexemes) = 2
    /\ result.lexemes[1].kind.tag = "Integer"
    /\ result.lexemes[2].kind = [tag |-> "Bool", val |-> TRUE]

====
